---- MODULE Spec2Model ----
(***************************************************************************)
(* ConditionalLearnerForFiniteClass                                        *)
(* (src/src/models/conditional_classification_finite_class.py):            *)
(* the constructor, forward (one pass over the clusters: train selectors,  *)
(* evaluate, store the cluster's winner, then a final evaluate over the    *)
(* winners) and evaluate (conditional error rate, NaN -> 1, arg-min).      *)
(***************************************************************************)
EXTENDS Integers, Sequences, FiniteSets

VARIABLES pc, cfg, lr_beta, init_weight, data, clusters, i, selectors,
          candidate_classifiers, candidate_selectors, evalCall, result,
          err, log, handed, split, trainer_inplace

vars == <<pc, cfg, lr_beta, init_weight, data, clusters, i, selectors,
          candidate_classifiers, candidate_selectors, evalCall, result,
          err, log, handed, split, trainer_inplace>>

----------------------------------------------------------------------------
(* Bounds of the model *)

MaxClusters == 3

(* classifiers of all clusters together *)
MaxRows == 3

NumSamples == 3

----------------------------------------------------------------------------
(* Vectors and matrices.  A matrix is [dim, rows]: torch keeps the column *)
(* count of a matrix even when it has no rows.                            *)

Zeros(d) == [j \in 1..d |-> 0]

OneHot(d, k) == [j \in 1..d |-> IF j = k THEN 1 ELSE 0]

ZeroMatrix(n, d) == [dim |-> d, rows |-> [r \in 1..n |-> Zeros(d)]]

RECURSIVE DotTo(_, _, _)
DotTo(w, x, n) == IF n = 0 THEN 0 ELSE w[n] * x[n] + DotTo(w, x, n - 1)

Dot(w, x) == DotTo(w, x, Len(w))

(* classifiers.to_dense(): a sparse row is a list of (col, val) entries;  *)
(* the dense row holds at each column the sum of the entries naming it.   *)
RECURSIVE EntrySum(_, _, _)
EntrySum(entries, j, n) ==
    IF n = 0 THEN 0
    ELSE (IF entries[n].col = j THEN entries[n].val ELSE 0) + EntrySum(entries, j, n - 1)

RowToDense(entries, d) == [j \in 1..d |-> EntrySum(entries, j, Len(entries))]

ToDense(sparse) ==
    [dim  |-> sparse.dim,
     rows |-> [r \in 1..Len(sparse.rows) |-> RowToDense(sparse.rows[r], sparse.dim)]]

----------------------------------------------------------------------------
(* Collaborators (helpers.Classify, helpers.TransformedDataset)           *)

(* Classify(classifier=[rows x D], data=[D x samples]): a thresholded     *)
(* matrix product; it needs the two D's to agree.                         *)
ShapeOk(matrix, feats) == matrix.dim = feats.dim

Classify(w, x) == IF Dot(w, x) > 0 THEN 1 ELSE 0

(* TransformedDataset(data): the features of every sample, the length *)
Features(d) == [dim |-> d.dim, rows |-> d.features]

ViewLen(d) == Len(d.labels)

----------------------------------------------------------------------------
(* evaluate, lines 117-142 *)

(* A rate is the quotient <<numerator, denominator>> as the float         *)
(* division leaves it: 0/0 is NaN.                                        *)
NaN == <<0, 0>>

One == <<1, 1>>

IsNaN(q) == q = NaN

Less(a, b) == a[1] * b[2] < b[1] * a[2]

SameRate(a, b) == a[1] * b[2] = b[1] * a[2]

(* errors = Classify(classifiers, features.T) != labels, one row: the    *)
(* samples where it is true                                               *)
ErrorsRow(c, d) == { s \in 1..ViewLen(d) : Classify(c, d.features[s]) # d.labels[s] }

(* selections = Classify(selectors, features.T), one row: the samples     *)
(* where it is true                                                       *)
SelectionsRow(w, d) == { s \in 1..ViewLen(d) : Classify(w, d.features[s]) = 1 }

(* (errors * selections).sum(dim=-1) / selections.sum(dim=-1), one row *)
RawRate(c, w, d) ==
    <<Cardinality(ErrorsRow(c, d) \cap SelectionsRow(w, d)),
      Cardinality(SelectionsRow(w, d))>>

NanToZero(q) == IF IsNaN(q) THEN <<0, 1>> ELSE q

NanKept(q) == q

(* conditional_error_rate[torch.isnan(conditional_error_rate)] = 1 *)
NanToOne(q) == IF IsNaN(q) THEN One ELSE q

TorchMinLast(rates) ==
    IF \E k \in 1..Len(rates) : IsNaN(rates[k])
    THEN CHOOSE k \in 1..Len(rates) :
            IsNaN(rates[k]) /\ \A j \in 1..(k-1) : ~IsNaN(rates[j])
    ELSE CHOOSE k \in 1..Len(rates) :
            /\ \A j \in 1..Len(rates) : ~Less(rates[j], rates[k])
            /\ \A j \in (k+1)..Len(rates) : Less(rates[k], rates[j])

TorchMax(rates) ==
    CHOOSE k \in 1..Len(rates) :
        /\ \A j \in 1..Len(rates) : ~Less(rates[k], rates[j])
        /\ \A j \in 1..(k-1) : Less(rates[j], rates[k])

(* torch.min(conditional_error_rate, dim=0): the index of the first       *)
(* minimal value; a NaN, if any, is the minimum (the first NaN).          *)
TorchMin(rates) ==
    IF \E k \in 1..Len(rates) : IsNaN(rates[k])
    THEN CHOOSE k \in 1..Len(rates) :
            IsNaN(rates[k]) /\ \A j \in 1..(k-1) : ~IsNaN(rates[j])
    ELSE CHOOSE k \in 1..Len(rates) :
            /\ \A j \in 1..Len(rates) : ~Less(rates[j], rates[k])
            /\ \A j \in 1..(k-1) : Less(rates[k], rates[j])

NoCall ==
    [called |-> FALSE, classifiers |-> ZeroMatrix(0, 0), selectors |-> ZeroMatrix(0, 0),
     error |-> "", rates |-> <<>>, min_index |-> 0, returned |-> <<>>]

(* One call of evaluate: its arguments, the conditional_error_rate tensor *)
(* handed to torch.min, min_index and the returned pair, or the error     *)
(* raised (a shape error of the matrix product, torch.min of no rows).    *)
(* The rates are computed once; the call is the record whose min_index is *)
(* torch.min's.                                                           *)
Evaluate(d, classifiers, sels) ==
    LET call == [called |-> TRUE, classifiers |-> classifiers, selectors |-> sels,
                 error |-> "", rates |-> <<>>, min_index |-> 0, returned |-> <<>>]
    IN  IF ~ShapeOk(classifiers, Features(d)) \/ ~ShapeOk(sels, Features(d))
        THEN [call EXCEPT !.error = "shape"]
        ELSE IF Len(classifiers.rows) = 0
        THEN [call EXCEPT !.error = "empty"]
        ELSE CHOOSE done \in
                { [call EXCEPT !.rates = rates, !.min_index = k,
                               !.returned = <<classifiers.rows[k], sels.rows[k]>>] :
                    rates \in { [r \in 1..Len(classifiers.rows) |->
                                   NanToOne(RawRate(classifiers.rows[r], sels.rows[r], d))] },
                    k \in 1..Len(classifiers.rows) } :
                done.min_index = TorchMin(done.rates)

----------------------------------------------------------------------------
(* Inputs *)

Devices == {"cpu", "cuda"}

NominalConfig == [dim_sample |-> 2, num_iter |-> 1, sample_size_psgd |-> 1]

ConfigOptions ==
    [dim_sample : {-1, 0, 2}, num_iter : {-1, 0, 1},
     sample_size_psgd : {1, NumSamples, NumSamples + 1}]

(* sample k has feature e1 or e2, alternating *)
Feature(d, k) == OneHot(d, ((k - 1) % 2) + 1)

(* label vectors of the evaluation view: first sample positive, or none *)
LabelOptions ==
    { [k \in 1..NumSamples |-> IF k = 1 THEN 1 ELSE 0], [k \in 1..NumSamples |-> 0] }

DataOf(dev, d, l) ==
    [device |-> dev, dim |-> d,
     features |-> [k \in 1..NumSamples |-> Feature(d, k)], labels |-> l]

(* two sparse classifier rows: e1, and 2*e2 stored as two entries *)
SparseRowOptions ==
    { <<[col |-> 1, val |-> 1]>>,
      <<[col |-> 2, val |-> 1], [col |-> 2, val |-> 1]>> }

ListsOf(clusterOptions) == UNION { [1..n -> clusterOptions] : n \in 0..MaxClusters }

(* well-formed inputs: every vector has dim_sample = 2 columns *)
DataOptions == { DataOf(dev, 2, l) : dev \in Devices, l \in LabelOptions }

ClusterOptions ==
    { [dim |-> 2, rows |-> rs] :
        rs \in UNION { [1..m -> SparseRowOptions] : m \in 1..MaxRows } }

RECURSIVE TotalRows(_, _)
TotalRows(cs, n) == IF n = 0 THEN 0 ELSE Len(cs[n].rows) + TotalRows(cs, n - 1)

ClusterLists == { cs \in ListsOf(ClusterOptions) : TotalRows(cs, Len(cs)) <= MaxRows }

(* inputs whose vectors have 2 or 3 columns; clusters of one classifier   *)
(* or none                                                                *)
AnyDimDataOptions ==
    { DataOf(dev, d, [k \in 1..NumSamples |-> 0]) : dev \in Devices, d \in {2, 3} }

AnyDimClusterLists ==
    ListsOf({ [dim |-> d, rows |-> rs] :
                d \in {2, 3}, rs \in { <<>>, <<<<[col |-> 1, val |-> 1]>>>> } })

(* selector weights a training run can end with (L2 norm <= 1) *)
SelectorOptions(d) == { Zeros(d), OneHot(d, 1), OneHot(d, 2) }

----------------------------------------------------------------------------
(* __init__, lines 29-42 *)

(* line 38 divides by num_iter * dim_sample; line 41 allocates dim_sample *)
(* zeros; line 42 sets index 0.  The square root of a negative is NaN.    *)
New(c) ==
    IF c.num_iter * c.dim_sample = 0
    THEN [error |-> "ZeroDivisionError", init_weight |-> <<>>, lr_beta |-> "none"]
    ELSE IF c.dim_sample < 0
    THEN [error |-> "RuntimeError", init_weight |-> <<>>, lr_beta |-> "none"]
    ELSE [error |-> "",
          init_weight |-> OneHot(c.dim_sample, 1),
          lr_beta |-> IF c.num_iter * c.dim_sample < 0 THEN "nan" ELSE "real"]

Init ==
    /\ pc = "new"
    /\ cfg = [dim_sample |-> 0, num_iter |-> 0, sample_size_psgd |-> 0]
    /\ lr_beta = "none"
    /\ init_weight = <<>>
    /\ data = DataOf("cpu", 0, <<>>)
    /\ clusters = <<>>
    /\ i = 0
    /\ selectors = <<>>
    /\ candidate_classifiers = ZeroMatrix(0, 0)
    /\ candidate_selectors = ZeroMatrix(0, 0)
    /\ evalCall = NoCall
    /\ result = <<>>
    /\ err = ""
    /\ log = <<>>
    /\ handed = <<>>
    /\ split = <<>>
    (* SelectorPerceptron either updates the weight it is handed in place *)
    (* or works on a copy of it                                           *)
    /\ trainer_inplace \in BOOLEAN

ConstructFrom(configs) ==
    /\ pc = "new"
    /\ \E c \in configs :
          /\ cfg' = c
          /\ init_weight' = New(c).init_weight
          /\ lr_beta' = New(c).lr_beta
          /\ err' = New(c).error
          /\ pc' = IF New(c).error = "" THEN "ready" ELSE "error"
    /\ UNCHANGED <<data, clusters, i, selectors, candidate_classifiers,
                   candidate_selectors, evalCall, result, log, handed, split,
                   trainer_inplace>>

----------------------------------------------------------------------------
(* forward, lines 65-115 *)

(* the for loop of line 76: after cluster k of n, the next cluster or,    *)
(* after the last, the final evaluation                                   *)
AfterClusterSkipLast(k, n) == IF k + 1 >= n THEN "final" ELSE "train"

AfterCluster(k, n) == IF k >= n THEN "final" ELSE "train"

(* lines 65-74: the candidate matrices and the evaluation view *)
ForwardFrom(datas, lists) ==
    /\ pc = "ready"
    /\ \E d \in datas, cs \in lists :
          /\ data' = d
          /\ clusters' = cs
          /\ candidate_selectors' = ZeroMatrix(Len(cs), cfg.dim_sample)
          /\ candidate_classifiers' = ZeroMatrix(Len(cs), cfg.dim_sample)
          /\ pc' = AfterCluster(0, Len(cs))
    /\ i' = 1
    /\ UNCHANGED <<cfg, lr_beta, init_weight, selectors, evalCall, result, err,
                   log, handed, split, trainer_inplace>>

(* random_split(dataset, [s, len - s]): the first s indices of a          *)
(* permutation of the len indices, then the rest; the two views' sizes    *)
RandomSplit(len, s) ==
    <<IF s < len THEN s ELSE len, IF s < len THEN len - s ELSE 0>>

(* self.init_weight.to(device): the tensor itself when it already lives   *)
(* on that device (the cpu), a copy otherwise                             *)
Aliased(device) == device = "cpu"

WriteRowFirst(m, k, v) == [m EXCEPT !.rows[1] = v]

(* candidate_xxx[i, ...] = v *)
WriteRow(m, k, v) == [m EXCEPT !.rows[k] = v]

(* a vector of this input has another dimension than dim_sample *)
Mismatched(d, cluster) == d.dim # cfg.dim_sample \/ cluster.dim # cfg.dim_sample

(* lines 83-102: the cluster's view, its split, and the training run.     *)
(* The run returns one selector per classifier, of dim_sample columns;    *)
(* a trainer that updates the handed weight in place (trainer_inplace)    *)
(* leaves its first selector in it; on vectors of another dimension the   *)
(* view or the run may raise a shape error.                               *)
Train ==
    /\ pc = "train"
    /\ split' = RandomSplit(ViewLen(data), cfg.sample_size_psgd)
    /\ handed' = Append(handed, init_weight)
    /\ \E sel \in [1..Len(clusters[i].rows) -> SelectorOptions(cfg.dim_sample)],
          raised \in IF Mismatched(data, clusters[i]) THEN BOOLEAN ELSE {FALSE} :
          IF raised
          THEN /\ pc' = "error"
               /\ err' = "shape"
               /\ UNCHANGED <<selectors, init_weight, log>>
          ELSE /\ selectors' = Append(selectors, [dim |-> cfg.dim_sample, rows |-> sel])
               /\ init_weight' = IF trainer_inplace /\ Aliased(data.device) /\ Len(sel) > 0
                                 THEN sel[1] ELSE init_weight
               /\ log' = Append(log, <<"train", i>>)
               /\ pc' = "evaluate"
               /\ err' = err
    /\ UNCHANGED <<cfg, lr_beta, data, clusters, i, candidate_classifiers,
                   candidate_selectors, evalCall, result, trainer_inplace>>

(* lines 104-108: evaluate the cluster, store its winner in row i *)
EvaluateCluster ==
    /\ pc = "evaluate"
    /\ \E call \in {Evaluate(data, ToDense(clusters[i]), selectors[i])} :
           /\ evalCall' = call
           /\ err' = call.error
           /\ log' = IF call.error # ""
                     THEN Append(log, <<"evaluate", i>>)
                     ELSE log \o << <<"evaluate", i>>, <<"write", i>> >>
           /\ candidate_classifiers' =
                 IF call.error # "" THEN candidate_classifiers
                 ELSE WriteRow(candidate_classifiers, i, call.returned[1])
           /\ candidate_selectors' =
                 IF call.error # "" THEN candidate_selectors
                 ELSE WriteRow(candidate_selectors, i, call.returned[2])
           /\ pc' = IF call.error # "" THEN "error" ELSE AfterCluster(i, Len(clusters))
           /\ i' = IF call.error # "" THEN i ELSE i + 1
    /\ UNCHANGED <<cfg, lr_beta, init_weight, data, clusters, selectors, result,
                   handed, split, trainer_inplace>>

(* lines 110-115: evaluate the candidate table, return its winner *)
FinalEvaluate ==
    /\ pc = "final"
    /\ \E call \in {Evaluate(data, candidate_classifiers, candidate_selectors)} :
           /\ evalCall' = call
           /\ err' = call.error
           /\ pc' = IF call.error = "" THEN "done" ELSE "error"
           /\ result' = call.returned
    /\ log' = Append(log, <<"evaluate", 0>>)
    /\ UNCHANGED <<cfg, lr_beta, init_weight, data, clusters, i, selectors,
                   candidate_classifiers, candidate_selectors, handed, split,
                   trainer_inplace>>

----------------------------------------------------------------------------
(* The learner with its documented configuration on well-formed inputs *)

Construct == ConstructFrom({NominalConfig})

Forward == ForwardFrom(DataOptions, ClusterLists)

Next == Construct \/ Forward \/ Train \/ EvaluateCluster \/ FinalEvaluate

Spec == Init /\ [][Next]_vars

(* Any configuration, and inputs of any dimension *)

ConstructAny == ConstructFrom(ConfigOptions)

ForwardAnyDim == ForwardFrom(AnyDimDataOptions, AnyDimClusterLists)

NextMalformed ==
    ConstructAny \/ ForwardAnyDim \/ Train \/ EvaluateCluster \/ FinalEvaluate

SpecMalformed == Init /\ [][NextMalformed]_vars

----------------------------------------------------------------------------
(* Properties of evaluate, stated on the record of its latest call *)

Completed == evalCall.called /\ evalCall.error = ""

Rows == 1..Len(evalCall.classifiers.rows)

(* samples the selector of row r selects, and those of them row r's       *)
(* classifier gets wrong                                                  *)
Selected(r) == SelectionsRow(evalCall.selectors.rows[r], data)

Wrong(r) == Selected(r) \cap ErrorsRow(evalCall.classifiers.rows[r], data)

Degenerate(r) == Selected(r) = {}

(* the conditional error rate of row r as the specification defines it *)
StatedRate(r) ==
    IF Degenerate(r) THEN <<1, 1>> ELSE <<Cardinality(Wrong(r)), Cardinality(Selected(r))>>

(* C1: in every call of evaluate, a row whose selector selects no sample  *)
(* of the evaluation view enters the arg-min with conditional error rate  *)
(* exactly 1, and no row enters it with a NaN rate.                       *)
C1_ZeroSelectionRateIsOne ==
    Completed =>
        \A r \in Rows :
            /\ ~IsNaN(evalCall.rates[r])
            /\ Degenerate(r) => evalCall.rates[r] = <<1, 1>>

C1_Witness ==
    /\ Completed
    /\ \E r \in Rows : Degenerate(r)
    /\ \E r \in Rows : ~Degenerate(r)

(* C2: evaluate returns the classifier and selector of the row of minimal *)
(* conditional error rate, the lowest-indexed one among ties; when every  *)
(* row is degenerate it returns the first row.                            *)
C2_ReturnsFirstMinimalRow ==
    Completed =>
        \E k \in Rows, rate \in {[r \in Rows |-> StatedRate(r)]} :
            /\ \A j \in Rows : ~Less(rate[j], rate[k])
            /\ \A j \in 1..(k-1) : Less(rate[k], rate[j])
            /\ evalCall.min_index = k
            /\ evalCall.returned =
                  <<evalCall.classifiers.rows[k], evalCall.selectors.rows[k]>>
            /\ (\A r \in Rows : Degenerate(r)) => k = 1

C2_Witness ==
    /\ Completed
    /\ \E j, k \in Rows :
          /\ j < k
          /\ evalCall.min_index = j
          /\ SameRate(StatedRate(j), StatedRate(k))
          /\ ~Degenerate(j)
          /\ evalCall.classifiers.rows[j] # evalCall.classifiers.rows[k]
          /\ evalCall.returned[1] = evalCall.classifiers.rows[j]

(* C3 as stated: whenever some row selects at least one sample, the       *)
(* returned pair comes from a row that selects at least one sample.       *)
C3_DegenerateNeverReturned ==
    (Completed /\ \E r \in Rows : ~Degenerate(r)) => ~Degenerate(evalCall.min_index)

(* C3, amended: whenever some row has a conditional error rate below 1    *)
(* (it selects a sample its classifier gets right), the returned pair     *)
(* comes from a row that selects at least one sample.                     *)
C3_DegenerateNotReturnedBelowOne ==
    (Completed /\ \E r \in Rows : Less(StatedRate(r), <<1, 1>>))
        => ~Degenerate(evalCall.min_index)

C3_Witness ==
    /\ Completed
    /\ Degenerate(1)
    /\ \E r \in Rows : Less(StatedRate(r), <<1, 1>>)
    /\ ~Degenerate(evalCall.min_index)

----------------------------------------------------------------------------
(* Properties of forward *)

(* forward has been called: the constructor succeeded and pc left "ready" *)
Started == pc \in {"train", "evaluate", "final", "done"} \/ (pc = "error" /\ New(cfg).error = "")

NumClusters == Len(clusters)

Count(event) == Cardinality({ k \in 1..Len(log) : log[k] = event })

(* the pair evaluate returns for cluster c and its trained selectors *)
Winner(c) == Evaluate(data, ToDense(clusters[c]), selectors[c]).returned

(* C4: row c of both candidate matrices is written once, when cluster c   *)
(* has been evaluated, with the pair evaluate returned for cluster c;     *)
(* until then it is the zero row; no other row changes, so when the final *)
(* evaluate runs every row holds the winner of its own cluster.           *)
C4_RowHoldsItsClusterWinner ==
    Started =>
        \A c \in 1..NumClusters :
            IF c < i
            THEN /\ Count(<<"write", c>>) = 1
                 /\ <<candidate_classifiers.rows[c], candidate_selectors.rows[c]>> = Winner(c)
            ELSE /\ Count(<<"write", c>>) = 0
                 /\ candidate_classifiers.rows[c] = Zeros(cfg.dim_sample)
                 /\ candidate_selectors.rows[c] = Zeros(cfg.dim_sample)

C4_Witness ==
    /\ pc = "final"
    /\ NumClusters = 3
    /\ candidate_classifiers.rows[1] # candidate_classifiers.rows[2]
    /\ candidate_selectors.rows[1] # candidate_selectors.rows[2]
    /\ candidate_selectors.rows[3] # Zeros(cfg.dim_sample)

(* C5 as stated: forward with an empty cluster list ends in an error, no  *)
(* pair is returned, and no evaluation of the candidate table has been    *)
(* attempted when the error is raised.                                    *)
C5_EmptyListFailsBeforeEvaluate ==
    (Started /\ NumClusters = 0 /\ pc \in {"done", "error"}) =>
        /\ pc = "error"
        /\ result = <<>>
        /\ ~evalCall.called
        /\ Count(<<"evaluate", 0>>) = 0

(* C6 as stated: an input with a vector of another dimension than         *)
(* dim_sample is rejected before any training or evaluation is performed  *)
(* on it, and no candidate row or returned pair derives from it.          *)
C6_MismatchRejectedBeforeTraining ==
    (Started /\ cfg = NominalConfig) =>
        \A c \in 1..NumClusters :
            Mismatched(data, clusters[c]) =>
                /\ Count(<<"train", c>>) = 0
                /\ Count(<<"evaluate", c>>) = 0
                /\ Count(<<"write", c>>) = 0
                /\ pc # "done"

(* C7 as stated: a configuration with dim_sample <= 0 or num_iter <= 0    *)
(* makes the constructor end in an error, and one whose sample_size_psgd  *)
(* is not below the length of a cluster's view makes forward end in an    *)
(* error once it has split that view; forward returns no pair.            *)
C7_BadConfigurationFails ==
    /\ (pc # "new" /\ (cfg.dim_sample <= 0 \/ cfg.num_iter <= 0)) => pc = "error"
    /\ (Started /\ split # <<>> /\ cfg.sample_size_psgd >= ViewLen(data)) => pc = "error"

(* C8 as stated: the learner's initial weight is the one-hot vector of    *)
(* index 0 in every state, and so is the weight handed to every training  *)
(* run, whatever earlier runs did with the weight they were handed.       *)
C8_InitialWeightStaysOneHot ==
    New(cfg).error = "" /\ pc # "new" =>
        /\ init_weight = OneHot(cfg.dim_sample, 1)
        /\ \A k \in 1..Len(handed) : handed[k] = OneHot(cfg.dim_sample, 1)

(* the calls forward makes over n clusters, in order *)
RECURSIVE ExpectedLog(_)
ExpectedLog(n) ==
    IF n = 0 THEN <<>>
    ELSE ExpectedLog(n - 1) \o << <<"train", n>>, <<"evaluate", n>>, <<"write", n>> >>

IsPrefix(s, t) == Len(s) <= Len(t) /\ \A k \in 1..Len(s) : s[k] = t[k]

(* C9: forward trains, evaluates and stores cluster 1, then cluster 2,    *)
(* ... in input order; the final evaluate is called once, after all n     *)
(* clusters; a forward that returns has made exactly n training runs and  *)
(* n + 1 evaluate calls.                                                  *)
C9_SinglePassInOrder ==
    Started =>
        /\ IsPrefix(log, Append(ExpectedLog(NumClusters), <<"evaluate", 0>>))
        /\ pc = "train" => log = ExpectedLog(i - 1)
        /\ pc = "evaluate" => log = Append(ExpectedLog(i - 1), <<"train", i>>)
        /\ pc = "final" => log = ExpectedLog(NumClusters)
        /\ pc = "done" =>
              /\ log = Append(ExpectedLog(NumClusters), <<"evaluate", 0>>)
              /\ Cardinality({ k \in 1..Len(log) : log[k][1] = "train" }) = NumClusters
              /\ Cardinality({ k \in 1..Len(log) : log[k][1] = "evaluate" }) = NumClusters + 1

C9_Witness == pc = "done" /\ NumClusters = 3 /\ Len(log) = 10

(* every (cluster, row) pair, its stated rate, and the lexicographic order *)
AllPairs ==
    UNION { { <<c, k>> : k \in 1..Len(clusters[c].rows) } : c \in 1..NumClusters }

PairRate(p) ==
    LET c == ToDense(clusters[p[1]]).rows[p[2]]
        w == selectors[p[1]].rows[p[2]]
        sel == SelectionsRow(w, data)
    IN  IF sel = {} THEN <<1, 1>>
        ELSE <<Cardinality(sel \cap ErrorsRow(c, data)), Cardinality(sel)>>

Before(p, q) == p[1] < q[1] \/ (p[1] = q[1] /\ p[2] < q[2])

====
